---- MODULE Spec2Model ----
(***************************************************************************)
(* A model of JobSee: src/main.py (scrape -> extract -> fill template ->   *)
(* compile -> email) and src/testing.py (resume analysis and similarity).  *)
(*                                                                         *)
(* Python strings are sequences of one-character strings, so that len(),   *)
(* startswith(), slicing and str.replace() are computed, not assumed.      *)
(* JSON values are tagged records [t |-> tag, v |-> payload]; a Python     *)
(* dict is the insertion-ordered sequence of its <<key, value>> pairs.     *)
(***************************************************************************)
EXTENDS Integers, Sequences, FiniteSets, TLC

VARIABLES pc, response, extracted_data, template, modified_content,
          email_text, tex_name, disk, returncode, result, calls, raised,
          args_cleanup, resume_text, jd_text, pdf_path

vars == <<pc, response, extracted_data, template, modified_content,
          email_text, tex_name, disk, returncode, result, calls, raised,
          args_cleanup, resume_text, jd_text, pdf_path>>

-----------------------------------------------------------------------------
(* Bounds of the model. *)

MaxSkills == 4
MaxEscLen == 3
MaxPad == 2
MaxWords == 2
MaxListLen == 2
MaxSegs == 3

-----------------------------------------------------------------------------
(* Python str operations on character sequences. *)

Min(a, b) == IF a < b THEN a ELSE b

\* s[:n]
Take(s, n) == SubSeq(s, 1, Min(n, Len(s)))

\* s.startswith(p)
StartsWith(s, p) == Len(s) >= Len(p) /\ SubSeq(s, 1, Len(p)) = p

\* s.find(sub) + 1: index of the first occurrence of sub in s, 0 when there
\* is none.
FindSub(s, sub) ==
  IF \E i \in 1..(Len(s) - Len(sub) + 1) : SubSeq(s, i, i + Len(sub) - 1) = sub
  THEN CHOOSE i \in 1..(Len(s) - Len(sub) + 1) :
         /\ SubSeq(s, i, i + Len(sub) - 1) = sub
         /\ \A j \in 1..(i - 1) : SubSeq(s, j, j + Len(sub) - 1) # sub
  ELSE 0

RECURSIVE Replace(_, _, _)
\* s.replace(old, new) for a non-empty old: leftmost, non-overlapping, all
\* occurrences.
Replace(s, old, new) ==
  IF FindSub(s, old) = 0 THEN s
  ELSE SubSeq(s, 1, FindSub(s, old) - 1) \o new
         \o Replace(SubSeq(s, FindSub(s, old) + Len(old), Len(s)), old, new)

RECURSIVE Join(_, _)
\* sep.join(parts)
Join(parts, sep) ==
  IF parts = <<>> THEN <<>>
  ELSE IF Len(parts) = 1 THEN parts[1]
  ELSE parts[1] \o sep \o Join(Tail(parts), sep)

\* c * n
Repeat(c, n) == [i \in 1..n |-> c]

-----------------------------------------------------------------------------
(* String literals of src/main.py. *)

K_job_title == <<"j","o","b","_","t","i","t","l","e">>
K_company_name == <<"c","o","m","p","a","n","y","_","n","a","m","e">>
K_job_description == <<"j","o","b","_","d","e","s","c","r","i","p","t","i","o","n">>
K_required_skills == <<"r","e","q","u","i","r","e","d","_","s","k","i","l","l","s">>
K_emails == <<"e","m","a","i","l","s">>

-----------------------------------------------------------------------------
(* JSON values, as json.loads builds them. *)

JNull == [t |-> "null", v |-> <<>>]
JNum(n) == [t |-> "num", v |-> <<n>>]
JStr(s) == [t |-> "str", v |-> s]
JList(l) == [t |-> "list", v |-> l]
JObj(d) == [t |-> "obj", v |-> d]
\* Text that json.loads rejects (JSONDecodeError).
Malformed == [t |-> "malformed", v |-> <<>>]

\* bool(x) of a parsed value.
Truthy(x) ==
  CASE x.t = "null" -> FALSE
    [] x.t = "num" -> x.v[1] # 0
    [] OTHER -> x.v # <<>>

IsStr(x) == x.t = "str"
IsList(x) == x.t = "list"

\* A list all of whose items are str: what ', '.join accepts.
AllStr(x) == IsList(x) /\ \A i \in 1..Len(x.v) : IsStr(x.v[i])

-----------------------------------------------------------------------------
(* Python dict: sequence of <<key, value>>, keys are JSON scalars. *)

HasKey(d, k) == \E i \in 1..Len(d) : d[i][1] = k

\* d[k] for a key that is present.
Item(d, k) == d[CHOOSE i \in 1..Len(d) : d[i][1] = k][2]

\* d.get(k, dflt)
Get(d, k, dflt) == IF HasKey(d, k) THEN Item(d, k) ELSE dflt

\* d[k] = v : an existing key keeps its place, a new key goes last.
Put(d, k, v) ==
  IF HasKey(d, k)
  THEN [i \in 1..Len(d) |-> IF d[i][1] = k THEN <<k, v>> ELSE d[i]]
  ELSE Append(d, <<k, v>>)

RECURSIVE PutAll(_, _)
PutAll(d, pairs) ==
  IF pairs = <<>> THEN d
  ELSE PutAll(Put(d, Head(pairs)[1], Head(pairs)[2]), Tail(pairs))

\* What dict.update makes of one item of an iterable argument: a key/value
\* pair when the item is itself an iterable of exactly two items (a list, a
\* two-character str, the keys of a two-key dict) with a hashable first.
IsPairItem(e) ==
  /\ e.t \in {"list", "str", "obj"}
  /\ Len(e.v) = 2
  /\ e.t = "list" => e.v[1].t \in {"null", "num", "str"}

PairOfItem(e) ==
  CASE e.t = "list" -> <<e.v[1], e.v[2]>>
    [] e.t = "str" -> <<JStr(<<e.v[1]>>), JStr(<<e.v[2]>>)>>
    [] OTHER -> <<e.v[1][1], e.v[2][1]>>

\* dict.update(x) succeeds (does not raise TypeError / ValueError).
UpdateOk(x) ==
  CASE x.t = "obj" -> TRUE
    [] x.t = "list" -> \A i \in 1..Len(x.v) : IsPairItem(x.v[i])
    [] x.t = "str" -> x.v = <<>>
    [] OTHER -> FALSE

\* d after d.update(x), for an x with UpdateOk(x).
Update(d, x) ==
  CASE x.t = "obj" -> PutAll(d, x.v)
    [] x.t = "list" -> PutAll(d, [i \in 1..Len(x.v) |-> PairOfItem(x.v[i])])
    [] OTHER -> d

-----------------------------------------------------------------------------
(* extract_data_with_gemini *)

default_data ==
  << <<JStr(K_job_title), JStr(<<"U","n","k","n","o","w","n"," ","R","o","l","e"," ","(","G","e","m","i","n","i",")">>)>>,
     <<JStr(K_company_name), JStr(<<"U","n","k","n","o","w","n"," ","C","o","m","p","a","n","y"," ","(","G","e","m","i","n","i",")">>)>>,
     <<JStr(K_job_description), JStr(<<"C","o","u","l","d"," ","n","o","t"," ","e","x","t","r","a","c","t"," ","J","o","b"," ","D","e","s","c","r","i","p","t","i","o","n"," ","v","i","a"," ","G","e","m","i","n","i",".">>)>>,
     <<JStr(K_required_skills), JList(<<>>)>>,
     <<JStr(K_emails), JList(<<>>)>> >>

\* An Extractor outcome: the call raises, or returns text that is either bare
\* or wrapped in a ```json fence, and whose payload json.loads would turn
\* into `body` (Malformed when it would raise).
Resp(raises, fenced, body) == [raises |-> raises, fenced |-> fenced, body |-> body]

\* The fence regex captures only a {...} payload; without a match the whole
\* response text, fence markers included, goes to json.loads.
JsonLoads(resp) ==
  IF resp.fenced /\ resp.body.t # "obj" THEN Malformed ELSE resp.body

\* isinstance(final_data.get(k), list) or reset to [].
ResetNonList(d, k) ==
  IF IsList(Get(d, k, JNull)) THEN d ELSE Put(d, k, JList(<<>>))

extract_data_no_reset(resp) ==
  LET parsed == JsonLoads(resp) IN
  IF resp.raises \/ parsed = Malformed \/ ~UpdateOk(parsed)
  THEN default_data
  ELSE Update(default_data, parsed)

extract_data_with_gemini(resp) ==
  LET parsed == JsonLoads(resp) IN
  IF resp.raises \/ parsed = Malformed \/ ~UpdateOk(parsed)
  THEN default_data
  ELSE ResetNonList(ResetNonList(Update(default_data, parsed),
                                 JStr(K_required_skills)),
                    JStr(K_emails))

-----------------------------------------------------------------------------
(* str(x), as an f-string or str.format renders a parsed value (numbers of  *)
(* the model are single digits; lists and dicts are never rendered).        *)


PyStr(x) ==
  CASE x.t = "str" -> x.v
    [] x.t = "null" -> <<"N","o","n","e">>
    [] x.t = "num" -> <<<<"0","1","2","3","4","5","6","7","8","9">>[x.v[1] + 1]>>

-----------------------------------------------------------------------------
(* modify_latex_template *)

LATEX_SUMMARY_PLACEHOLDER == <<"%","<","S","U","M","M","A","R","Y","_","P","L","A","C","E","H","O","L","D","E","R",">","%">>
LATEX_SKILLS_PLACEHOLDER == <<"%","<","S","K","I","L","L","S","_","L","I","S","T","_","P","L","A","C","E","H","O","L","D","E","R",">","%">>
CouldNotExtract == <<"C","o","u","l","d"," ","n","o","t"," ","e","x","t","r","a","c","t">>
G1 == <<"H","i","g","h","l","y"," ","m","o","t","i","v","a","t","e","d"," ","p","r","o","f","e","s","s","i","o","n","a","l"," ","s","e","e","k","i","n","g"," ","t","h","e"," ">>
G2 == <<" ","p","o","s","i","t","i","o","n"," ","a","t"," ">>
S1 == <<"S","u","m","m","a","r","y"," ","b","a","s","e","d"," ","o","n"," ","j","o","b"," ","d","e","s","c","r","i","p","t","i","o","n",":"," ">>
S2 == <<" ","M","y"," ","b","a","c","k","g","r","o","u","n","d"," ","a","l","i","g","n","s"," ","w","i","t","h"," ","t","h","e"," ","r","e","q","u","i","r","e","m","e","n","t","s"," ","o","f"," ","t","h","e"," ">>
S3 == <<" ","p","o","s","i","t","i","o","n",".">>
ItemPrefix == <<" "," "," "," ","\\","i","t","e","m"," ">>
NoSkillsItem == <<" "," "," "," ","\\","i","t","e","m"," ","N","o"," ","s","p","e","c","i","f","i","c"," ","s","k","i","l","l","s"," ","e","x","t","r","a","c","t","e","d",".">>
Challenging == <<"c","h","a","l","l","e","n","g","i","n","g">>
EsteemedCompany == <<"y","o","u","r"," ","e","s","t","e","e","m","e","d"," ","c","o","m","p","a","n","y">>
Role == <<"r","o","l","e">>

SummaryMinLen == 30

\* s.replace('%', '\\%').replace('&', '\\&').replace('_', '\\_')
LatexEscape(s) ==
  Replace(Replace(Replace(s, <<"%">>, <<"\\", "%">>),
                  <<"&">>, <<"\\", "&">>),
          <<"_">>, <<"\\", "_">>)

\* The condition of line 123 raises: len() of a number, or .startswith of a
\* long list or dict.
SummaryRaises(desc) ==
  /\ Truthy(desc)
  /\ \/ desc.t = "num"
     \/ desc.t \in {"list", "obj"} /\ Len(desc.v) >= SummaryMinLen

UseGenericSummary_off_by_one(desc) ==
  \/ ~Truthy(desc)
  \/ Len(desc.v) < SummaryMinLen - 1
  \/ StartsWith(desc.v, CouldNotExtract)

\* not summary_text or len(summary_text) < 30
\*   or summary_text.startswith("Could not extract")
UseGenericSummary(desc) ==
  \/ ~Truthy(desc)
  \/ Len(desc.v) < SummaryMinLen
  \/ StartsWith(desc.v, CouldNotExtract)

\* summary_text before escaping (lines 122-126).
SummaryText(d) ==
  LET desc == Get(d, JStr(K_job_description), JStr(<<>>)) IN
  IF UseGenericSummary(desc)
  THEN G1 \o PyStr(Get(d, JStr(K_job_title), JStr(Challenging))) \o G2
          \o PyStr(Get(d, JStr(K_company_name), JStr(EsteemedCompany)))
          \o <<".">>
  ELSE S1 \o desc.v \o S2
          \o PyStr(Get(d, JStr(K_job_title), JStr(Role))) \o S3

\* What `for skill in skills_list` iterates over: the items of a list, the
\* characters of a str, the keys of a dict.
IterItems(x) ==
  CASE x.t = "list" -> x.v
    [] x.t = "str" -> [i \in 1..Len(x.v) |-> JStr(<<x.v[i]>>)]
    [] x.t = "obj" -> [i \in 1..Len(x.v) |-> x.v[i][1]]

\* The skills section raises: iterating a number, or .replace of a non-str.
SkillsRaise(skills) ==
  /\ Truthy(skills)
  /\ \/ skills.t = "num"
     \/ \E i \in 1..Len(IterItems(skills)) : ~IsStr(IterItems(skills)[i])

SkillsLatexItems_no_fallback(skills) ==
  Join([i \in 1..Len(IterItems(skills)) |->
          ItemPrefix \o LatexEscape(IterItems(skills)[i].v)], <<"\n">>)

\* skills_latex_items (lines 131-135).  Line 133 nests backslashes in an
\* f-string expression, which Python 3.12 and later accept; the operator
\* follows that interpreter.
SkillsLatexItems(skills) ==
  IF Truthy(skills)
  THEN Join([i \in 1..Len(IterItems(skills)) |->
               ItemPrefix \o LatexEscape(IterItems(skills)[i].v)], <<"\n">>)
  ELSE NoSkillsItem

NoFill == [ok |-> FALSE, summary_text |-> <<>>, skills_latex_items |-> <<>>,
           content |-> <<>>]

\* tpl: the template file, [readable, content]; write_ok: makedirs and the
\* write of the output file succeed.  The result carries the locals
\* summary_text (before escaping) and skills_latex_items with the content
\* written.
modify_latex_template(tpl, d, write_ok) ==
  LET desc == Get(d, JStr(K_job_description), JStr(<<>>))
      skills == Get(d, JStr(K_required_skills), JList(<<>>))
  IN
  IF ~tpl.readable \/ SummaryRaises(desc) \/ SkillsRaise(skills) \/ ~write_ok
  THEN NoFill
  ELSE LET summary == SummaryText(d)
           items == SkillsLatexItems(skills)
       IN [ok |-> TRUE,
           summary_text |-> summary,
           skills_latex_items |-> items,
           content |-> Replace(Replace(tpl.content, LATEX_SUMMARY_PLACEHOLDER,
                                       LatexEscape(summary)),
                               LATEX_SKILLS_PLACEHOLDER, items)]

-----------------------------------------------------------------------------
(* generate_email *)

EMAIL_SPECIFIC_JD_POINT_PLACEHOLDER == <<"[","M","e","n","t","i","o","n"," ","s","o","m","e","t","h","i","n","g"," ","s","p","e","c","i","f","i","c"," ","f","r","o","m"," ","t","h","e"," ","J","D","]">>
ThePosition == <<"t","h","e"," ","p","o","s","i","t","i","o","n">>
YourCompany == <<"y","o","u","r"," ","c","o","m","p","a","n","y">>
RelevantSkills == <<"r","e","l","e","v","a","n","t"," ","s","k","i","l","l","s">>
CommaSpace == <<","," ">>
your_name_value == <<"A","m","r","i","t","a","n","s","h","u"," ","S","r","i","v","a","s","t","a","v","a">>
your_contact_value == <<"a","m","r","i","t","a","n","s","h","u","s","5","5","0","@","g","m","a","i","l",".","c","o","m"," ","|"," ","+","9","1","-","9","3","9","5","8","8","2","9","3">>

TopSkillsCount == 3

\* Index of the first c in s, 0 when there is none.
IndexOf(s, c) ==
  IF \E i \in 1..Len(s) : s[i] = c
  THEN CHOOSE i \in 1..Len(s) : s[i] = c /\ \A j \in 1..(i - 1) : s[j] # c
  ELSE 0

\* Index of the first brace of s, 0 when there is none.
FirstBrace(s) ==
  IF \E i \in 1..Len(s) : s[i] \in {"{", "}"}
  THEN CHOOSE i \in 1..Len(s) :
         s[i] \in {"{", "}"} /\ \A j \in 1..(i - 1) : s[j] \notin {"{", "}"}
  ELSE 0

RECURSIVE FormatOk(_, _)
\* str.format(**env) does not raise on s: every {NAME} names a key of env
\* (KeyError, or IndexError for {} otherwise), braces are balanced
\* (ValueError otherwise); {{ and }} are literal braces.
FormatOk(s, env) ==
  LET b == FirstBrace(s) IN
  IF b = 0 THEN TRUE
  ELSE IF Len(s) > b /\ s[b + 1] = s[b]
       THEN FormatOk(SubSeq(s, b + 2, Len(s)), env)
       ELSE /\ s[b] = "{"
            /\ IndexOf(s, "}") > b
            /\ HasKey(env, SubSeq(s, b + 1, IndexOf(s, "}") - 1))
            /\ FormatOk(SubSeq(s, IndexOf(s, "}") + 1, Len(s)), env)

RECURSIVE Format(_, _)
\* s.format(**env), for an s with FormatOk(s, env).
Format(s, env) ==
  LET b == FirstBrace(s) IN
  IF b = 0 THEN s
  ELSE IF Len(s) > b /\ s[b + 1] = s[b]
       THEN SubSeq(s, 1, b) \o Format(SubSeq(s, b + 2, Len(s)), env)
       ELSE SubSeq(s, 1, b - 1)
              \o Item(env, SubSeq(s, b + 1, IndexOf(s, "}") - 1))
              \o Format(SubSeq(s, IndexOf(s, "}") + 1, Len(s)), env)

\* key_skills_list[:3] or ", ".join raise: a number or dict cannot be
\* sliced, join needs str items.
KeySkillsRaise(skills) ==
  /\ Truthy(skills)
  /\ \/ skills.t \in {"num", "obj"}
     \/ \E i \in 1..Min(TopSkillsCount, Len(IterItems(skills))) :
          ~IsStr(IterItems(skills)[i])

KeySkillsStr_one_more(skills) ==
  IF Truthy(skills)
  THEN Join([i \in 1..Min(TopSkillsCount + 1, Len(IterItems(skills))) |->
               IterItems(skills)[i].v], CommaSpace)
  ELSE RelevantSkills

\* ", ".join(key_skills_list[:3]) if key_skills_list else "relevant skills"
KeySkillsStr(skills) ==
  IF Truthy(skills)
  THEN Join([i \in 1..Len(Take(IterItems(skills), TopSkillsCount)) |->
               Take(IterItems(skills), TopSkillsCount)[i].v], CommaSpace)
  ELSE RelevantSkills

\* The keyword arguments of email_template.format(...).
EmailEnv(d) ==
  << <<<<"R","O","L","E","_","T","I","T","L","E">>, PyStr(Get(d, JStr(K_job_title), JStr(ThePosition)))>>,
     <<<<"C","O","M","P","A","N","Y","_","N","A","M","E">>, PyStr(Get(d, JStr(K_company_name), JStr(YourCompany)))>>,
     <<<<"K","E","Y","_","S","K","I","L","L","S">>,
       KeySkillsStr(Get(d, JStr(K_required_skills), JList(<<>>)))>>,
     <<<<"S","P","E","C","I","F","I","C","_","J","D","_","P","O","I","N","T">>, EMAIL_SPECIFIC_JD_POINT_PLACEHOLDER>>,
     <<<<"Y","O","U","R","_","N","A","M","E">>, your_name_value>>,
     <<<<"Y","O","U","R","_","C","O","N","T","A","C","T","_","I","N","F","O">>, your_contact_value>> >>

NoEmail == [none |-> TRUE, text |-> <<>>]

\* tpl: the message template file, [readable, content].
generate_email(tpl, d) ==
  IF \/ ~tpl.readable
     \/ KeySkillsRaise(Get(d, JStr(K_required_skills), JList(<<>>)))
     \/ ~FormatOk(tpl.content, EmailEnv(d))
  THEN NoEmail
  ELSE [none |-> FALSE, text |-> Format(tpl.content, EmailEnv(d))]

-----------------------------------------------------------------------------
(* sanitize_filename *)

FilenameMaxLen == 100

\* The characters re.sub(r'[\\/*?:"<>|]', "", ...) deletes.
UnsafeChars == {"\\", "/", "*", "?", ":", "\"", "<", ">", "|"}

\* re.sub and str.replace raise TypeError on anything but a str.
SanitizeRaises(x) == ~IsStr(x)

sanitize_filename(s) ==
  Take(Replace(SelectSeq(s, LAMBDA c : c \notin UnsafeChars), <<" ">>, <<"_">>),
       FilenameMaxLen)

-----------------------------------------------------------------------------
(* compile_latex_to_pdf and cleanup_latex_aux_files.  Files are named by   *)
(* their base names inside the output directory; disk is the set of those  *)
(* that exist.                                                             *)

DotTex == <<".","t","e","x">>
DotPdf == <<".","p","d","f">>
DotLog == <<".","l","o","g">>
DotAux == <<".","a","u","x">>

extensions_to_remove == {DotLog, DotAux, <<".","o","u","t">>, <<".","t","o","c">>, <<".","n","a","v">>, <<".","s","n","m">>, <<".","f","l","s">>, <<".","f","d","b","_","l","a","t","e","x","m","k">>}

\* Index of the last c in s, 0 when there is none.
LastIndexOf(s, c) ==
  IF \E i \in 1..Len(s) : s[i] = c
  THEN CHOOSE i \in 1..Len(s) : s[i] = c /\ \A j \in (i + 1)..Len(s) : s[j] # c
  ELSE 0

\* The job name pdflatex derives from the file name given on its command
\* line (line 192): the name without its last extension.
JobName(tex_filename) ==
  IF LastIndexOf(tex_filename, ".") > 1
  THEN SubSeq(tex_filename, 1, LastIndexOf(tex_filename, ".") - 1)
  ELSE tex_filename

\* The file pdflatex writes its PDF to.
Artifact(tex_filename) == JobName(tex_filename) \o DotPdf

\* What a run of the command leaves: the process could not be started
\* (FileNotFoundError, or another exception), or it ran, exited with
\* returncode and wrote the files `written`.
RunOutcomes(tex_filename) ==
  { [started |-> FALSE, returncode |-> -1, written |-> {}] } \cup
  { [started |-> TRUE, returncode |-> rc, written |-> w] :
      rc \in {0, 1},
      w \in SUBSET {Artifact(tex_filename), JobName(tex_filename) \o DotLog,
                    JobName(tex_filename) \o DotAux} }

\* pdf_filename = tex_filename.replace('.tex', '.pdf')
pdf_filename(tex_filename) == Replace(tex_filename, DotTex, DotPdf)

\* The value compile_latex_to_pdf returns, given the files `before` the call
\* and the outcome `run` of subprocess.run.
compile_latex_to_pdf(tex_filename, before, run) ==
  /\ tex_filename \in before
  /\ run.started
  /\ run.returncode = 0
  /\ pdf_filename(tex_filename) \in before \cup run.written

\* The files left by cleanup_latex_aux_files when os.remove fails on `kept`.
cleanup_latex_aux_files(files, base, kept) ==
  files \ ({base \o ext : ext \in extensions_to_remove} \ kept)

-----------------------------------------------------------------------------
(* calculate_similarity.  A text is the sequence of its whitespace-separated *)
(* tokens; the empty sequence is the empty str.                            *)

\* Tokens TfidfVectorizer(stop_words='english') drops: English stop words,
\* and tokens of fewer than two characters (its token pattern).
StopWords == {"the", "and"}
ShortTokens == {"a", "x"}

Vocabulary(docs) ==
  { w \in UNION { {d[i] : i \in 1..Len(d)} : d \in docs } :
      w \notin StopWords /\ w \notin ShortTokens }

Count(doc, w) == Cardinality({i \in 1..Len(doc) : doc[i] = w})

\* Smoothed idf over the two documents, in tenths: ln(3/(1+df)) + 1 is 1.0
\* for a term of both documents and about 1.4 for a term of one.
Idf10(a, b, w) == IF Count(a, w) > 0 /\ Count(b, w) > 0 THEN 10 ELSE 14

RECURSIVE SumOver(_, _)
SumOver(S, f) ==
  IF S = {} THEN 0
  ELSE LET w == CHOOSE w \in S : TRUE IN f[w] + SumOver(S \ {w}, f)

Dot(a, b) ==
  LET V == Vocabulary({a, b}) IN
  SumOver(V, [w \in V |-> Count(a, w) * Idf10(a, b, w) * Count(b, w) * Idf10(a, b, w)])

ISqrt(n) == CHOOSE r \in 0..n : r * r <= n /\ (r + 1) * (r + 1) > n

\* round(cosine * 100, 2) in hundredths of a percent (fixed point).
Cosine10000(a, b) ==
  IF Dot(a, a) = 0 \/ Dot(b, b) = 0 THEN 0
  ELSE Min(10000, (10000 * Dot(a, b)) \div (ISqrt(Dot(a, a)) * ISqrt(Dot(b, b))))

Returned(v) == [raised |-> FALSE, value |-> v]
Raised == [raised |-> TRUE, value |-> 0]

calculate_similarity_unhandled(resume, jd, lib_error) ==
  IF resume = <<>> \/ jd = <<>> THEN Returned(0)
  ELSE IF Vocabulary({resume, jd}) = {} THEN Raised
  ELSE IF lib_error THEN Raised
  ELSE Returned(Cosine10000(resume, jd))

\* lib_error: the vectorizer or cosine_similarity raises some other
\* exception.  fit_transform raises ValueError on an empty vocabulary.
calculate_similarity(resume, jd, lib_error) ==
  IF resume = <<>> \/ jd = <<>> THEN Returned(0)
  ELSE IF Vocabulary({resume, jd}) = {} THEN Returned(0)
  ELSE IF lib_error THEN Returned(0)
  ELSE Returned(Cosine10000(resume, jd))

-----------------------------------------------------------------------------
(* Inputs. *)

Dev == <<"D","e","v">>
Acme == <<"A","c","m","e">>
Python == <<"P","y","t","h","o","n">>
SQL == <<"S","Q","L">>
Mail == <<"h","r","@","a","c","m","e",".","i","o">>
Timestamp == <<"2","0","2","5","0","1","0","1","_","1","2","0","0","0","0">>

Absent == [t |-> "absent", v |-> <<>>]
NoResponse == Resp(FALSE, FALSE, [t |-> "none", v |-> <<>>])
NoTemplate == [readable |-> FALSE, content |-> <<>>]

\* All sequences over S of length 0..n.
SeqsUpTo(S, n) == UNION { [1..k -> S] : k \in 0..n }

\* The JSON object with the five keys in prompt order, a key left out when
\* its value is Absent.
ObjWith(title, company, desc, skills, emails) ==
  JObj(SelectSeq(<< <<JStr(K_job_title), title>>,
                    <<JStr(K_company_name), company>>,
                    <<JStr(K_job_description), desc>>,
                    <<JStr(K_required_skills), skills>>,
                    <<JStr(K_emails), emails>> >>,
                 LAMBDA kv : kv[2] # Absent))

\* A description of n characters that starts with (as much as fits of) prefix.
Desc(prefix, n) == Take(prefix \o Repeat("x", n), n)

LongDesc == Desc(<<"W","e"," ">>, SummaryMinLen + MaxPad)

ScalarBodies == {JNull, JNum(0), JNum(5), JStr(<<>>), JStr(<<"a","b">>), JStr(Dev)}

ListItems ==
  { JNum(1), JNull, JStr(<<"a","b">>), JStr(Dev),
    JList(<<JStr(K_job_title), JStr(Dev)>>),
    JList(<<JStr(K_required_skills), JNum(5)>>),
    JList(<<JNum(1), JNum(2)>>),
    JList(<<JList(<<>>), JNum(2)>>),
    JObj(<< <<JStr(<<"p">>), JNum(1)>>, <<JStr(<<"q">>), JNum(2)>> >>) }

ListBodies == { JList(l) : l \in SeqsUpTo(ListItems, MaxListLen) }

TitleValues == {Absent, JStr(Dev), JNull, JNum(5)}
ATex == <<"A",".","t","e","x"," ","C","o">>
CompanyValues == {Absent, JStr(Acme), JStr(ATex), JNull}
DescValues == {Absent, JStr(<<>>), JStr(LongDesc), JNum(5), JList(<<>>)}
SkillsValues ==
  {Absent, JList(<<>>), JList(<<JStr(Python), JStr(SQL)>>), JList(<<JNum(1)>>),
   JNull, JStr(Python), JObj(<<>>)}
EmailsValues == {Absent, JList(<<JStr(Mail)>>), JNull, JNum(5)}

ObjBodies ==
  { ObjWith(ti, co, de, sk, em) :
      ti \in TitleValues, co \in CompanyValues, de \in DescValues,
      sk \in SkillsValues, em \in EmailsValues }

Responses ==
  {Resp(TRUE, FALSE, Malformed)} \cup
  { Resp(FALSE, f, b) :
      f \in BOOLEAN,
      b \in {Malformed} \cup ScalarBodies \cup ListBodies \cup ObjBodies }

-----------------------------------------------------------------------------
(* SpecExtract: one call of extract_data_with_gemini on any response. *)

InitExtract ==
  /\ pc = "call"
  /\ response = NoResponse
  /\ extracted_data = <<>>
  /\ template = NoTemplate
  /\ modified_content = <<>>
  /\ email_text = NoEmail
  /\ tex_name = <<>>
  /\ disk = {}
  /\ returncode = -1
  /\ result = NoFill
  /\ calls = <<>>
  /\ raised = FALSE
  /\ args_cleanup = FALSE
  /\ resume_text = <<>>
  /\ jd_text = <<>>
  /\ pdf_path = <<>>

ExtractCall ==
  /\ pc = "call"
  /\ \E r \in Responses :
       /\ response' = r
       /\ extracted_data' = extract_data_with_gemini(r)
  /\ pc' = "extracted"
  /\ UNCHANGED <<template, modified_content, email_text, tex_name, disk,
                 returncode, result, calls, raised, args_cleanup, resume_text,
                 jd_text, pdf_path>>

SpecExtract == InitExtract /\ [][ExtractCall]_vars

FiveKeys == {K_job_title, K_company_name, K_job_description, K_required_skills, K_emails}

\* C1 (as claimed): whenever the Extractor call raises or its response does
\* not parse to a JSON object, extract_data_with_gemini returns exactly the
\* default record.
C1_ParseFailureGivesDefault ==
  (pc = "extracted" /\ (response.raises \/ response.body.t # "obj"))
    => extracted_data = default_data

\* C2: after any response the record has all five keys, required_skills and
\* emails are lists, and a key the parsed object omits keeps its default.
C2_RecordWellTyped ==
  pc = "extracted" =>
    /\ \A k \in FiveKeys : HasKey(extracted_data, JStr(k))
    /\ IsList(Item(extracted_data, JStr(K_required_skills)))
    /\ IsList(Item(extracted_data, JStr(K_emails)))
    /\ \A k \in FiveKeys :
         (~response.raises /\ JsonLoads(response).t = "obj"
            /\ ~HasKey(JsonLoads(response).v, JStr(k)))
           => Item(extracted_data, JStr(k)) = Item(default_data, JStr(k))

\* C2 witness: an object with a non-list required_skills and no job_title
\* has been extracted.
C2_Witness ==
  /\ pc = "extracted"
  /\ ~response.raises
  /\ JsonLoads(response).t = "obj"
  /\ HasKey(JsonLoads(response).v, JStr(K_required_skills))
  /\ ~IsList(Item(JsonLoads(response).v, JStr(K_required_skills)))
  /\ ~HasKey(JsonLoads(response).v, JStr(K_job_title))

-----------------------------------------------------------------------------
(* SpecFill: one call of modify_latex_template or of generate_email on a   *)
(* listing whose fields are typed as the data model says.                  *)

SpecialsPrefix == <<"5","0","%"," ","R","&","D","_","x"," ","\\","%"," ">>
Could == <<"C","o","u","l","d">>

EscAlphabet == {"a", "%", "&", "_", "\\"}

BaseSkills == <<Python, SQL, <<"D","o","c","k","e","r">>, <<"A","W","S">>, <<"G","i","t">>, <<"J","a","v","a">>>>

SkillLists ==
  { JList([i \in 1..n |-> JStr(BaseSkills[i])]) : n \in 0..MaxSkills } \cup
  { JList(<<JStr(s)>>) : s \in SeqsUpTo(EscAlphabet, MaxEscLen) } \cup
  { JList(<<JStr(Python), JStr(s)>>) : s \in SeqsUpTo(EscAlphabet, 1) }

\* Descriptions of about 0 and about 30 characters, with several beginnings.
Descs ==
  { JStr(Desc(p, n)) :
      p \in {<<>>, CouldNotExtract, Could, SpecialsPrefix},
      n \in (0..MaxPad) \cup ((SummaryMinLen - MaxPad)..(SummaryMinLen + MaxPad)) }

Listings ==
  { ObjWith(ti, JStr(Acme), de, JList(<<JStr(Python), JStr(SQL)>>), JList(<<>>)).v :
      ti \in {JStr(Dev), JStr(<<"Q","A","_","1">>)}, de \in Descs \cup {JNull, Absent} } \cup
  { ObjWith(JStr(Dev), JStr(Acme), JStr(LongDesc), sk, JList(<<JStr(Mail)>>)).v :
      sk \in SkillLists \cup {Absent} } \cup
  { ObjWith(Absent, Absent, Absent, Absent, Absent).v }

\* Template files.  The marker characters ^ ~ $ occur in no input string
\* and delimit the substituted regions.
LatexTemplate1 ==
  <<"^">> \o LATEX_SUMMARY_PLACEHOLDER \o <<"~">> \o LATEX_SKILLS_PLACEHOLDER \o <<"$">>
LatexTemplates ==
  { NoTemplate,
    [readable |-> TRUE, content |-> LatexTemplate1],
    [readable |-> TRUE, content |-> <<"^", "~", "$">>] }

EmailTemplate1 == <<"^","{","K","E","Y","_","S","K","I","L","L","S","}","~"," ","{","R","O","L","E","_","T","I","T","L","E","}"," ","a","t"," ","{","C","O","M","P","A","N","Y","_","N","A","M","E","}","."," ","[","M","e","n","t","i","o","n"," ","s","o","m","e","t","h","i","n","g"," ","s","p","e","c","i","f","i","c"," ","f","r","o","m"," ","t","h","e"," ","J","D","]"," ","{","Y","O","U","R","_","N","A","M","E","}"," ","{","Y","O","U","R","_","C","O","N","T","A","C","T","_","I","N","F","O","}","$">>
EmailTemplate2 == <<"^","{","K","E","Y","_","S","K","I","L","L","S","}","~"," ","{","S","P","E","C","I","F","I","C","_","J","D","_","P","O","I","N","T","}","$">>

EmailTemplates ==
  { NoTemplate } \cup
  { [readable |-> TRUE, content |-> c] :
      c \in {EmailTemplate1, EmailTemplate2, <<"D","e","a","r"," ","{","R","E","C","R","U","I","T","E","R","}">>, <<"R","o","l","e",":"," ","{","R","O","L","E","_","T","I","T","L","E">>,
             <<"{","{","R","O","L","E","_","T","I","T","L","E","}","}"," ","}">>, <<"M","y"," ","a","t","t","a","c","h","e","d"," ","r","e","s","u","m","e"," ","p","r","o","v","i","d","e","s"," ","{","K","E","Y","_","S","K","I","L","L","S","}","."," ","M","y"," ","a","t","t","a","c","h","e","d"," ","r","e","s","u","m","e"," ","p","r","o","v","i","d","e","s"," ","m","o","r","e",".">>} }

InitFill ==
  /\ pc = "input"
  /\ response = NoResponse
  /\ extracted_data \in Listings
  /\ template = NoTemplate
  /\ modified_content = <<>>
  /\ email_text = NoEmail
  /\ tex_name = <<>>
  /\ disk = {}
  /\ returncode = -1
  /\ result = NoFill
  /\ calls = <<>>
  /\ raised = FALSE
  /\ args_cleanup = FALSE
  /\ resume_text = <<>>
  /\ jd_text = <<>>
  /\ pdf_path = <<>>

FillLatex ==
  /\ pc = "input"
  /\ \E tpl \in LatexTemplates, write_ok \in BOOLEAN :
       /\ template' = tpl
       /\ result' = modify_latex_template(tpl, extracted_data, write_ok)
       /\ modified_content' = result'.content
  /\ pc' = "latex_done"
  /\ UNCHANGED <<response, extracted_data, email_text, tex_name, disk,
                 returncode, calls, raised, args_cleanup, resume_text, jd_text,
                 pdf_path>>

GenEmail ==
  /\ pc = "input"
  /\ \E tpl \in EmailTemplates :
       /\ template' = tpl
       /\ email_text' = generate_email(tpl, extracted_data)
  /\ pc' = "email_done"
  /\ UNCHANGED <<response, extracted_data, modified_content, tex_name, disk,
                 returncode, result, calls, raised, args_cleanup, resume_text,
                 jd_text, pdf_path>>

NextFill == FillLatex \/ GenEmail

SpecFill == InitFill /\ [][NextFill]_vars

RECURSIVE SplitOn(_, _)
\* The pieces of s between the occurrences of sep.
SplitOn(s, sep) ==
  IF FindSub(s, sep) = 0 THEN <<s>>
  ELSE <<SubSeq(s, 1, FindSub(s, sep) - 1)>>
         \o SplitOn(SubSeq(s, FindSub(s, sep) + Len(sep), Len(s)), sep)

\* The part of s between the marker characters a and b.
Between(s, a, b) == SubSeq(s, IndexOf(s, a) + 1, IndexOf(s, b) - 1)

\* The fields of the listing as the claims read them.
ListingDesc == Get(extracted_data, JStr(K_job_description), JStr(<<>>))
ListingSkills == Get(extracted_data, JStr(K_required_skills), JList(<<>>)).v
ListingTitle(dflt) == PyStr(Get(extracted_data, JStr(K_job_title), JStr(dflt)))
ListingCompany(dflt) == PyStr(Get(extracted_data, JStr(K_company_name), JStr(dflt)))

\* C6: the summary is the generic sentence naming job_title and company_name
\* exactly when the description is empty, shorter than 30 characters or
\* starts with 'Could not extract'; otherwise it is the description followed
\* by the closing clause naming job_title.  Length 29 is always generic.
C6_SummaryBranch ==
  (pc = "latex_done" /\ result.ok) =>
    LET generic == G1 \o ListingTitle(Challenging) \o G2
                      \o ListingCompany(EsteemedCompany) \o <<".">>
        empty == ListingDesc.t # "str" \/ ListingDesc.v = <<>>
    IN /\ (empty \/ Len(ListingDesc.v) < 30
             \/ StartsWith(ListingDesc.v, CouldNotExtract))
            <=> result.summary_text = generic
       /\ ~(empty \/ Len(ListingDesc.v) < 30
             \/ StartsWith(ListingDesc.v, CouldNotExtract))
            => result.summary_text =
                 S1 \o ListingDesc.v \o S2 \o ListingTitle(Role) \o S3
       /\ (~empty /\ Len(ListingDesc.v) = 29) => result.summary_text = generic

\* C6 witness: a 29-character description that does not start with 'Could
\* not extract' has been rendered (by the generic branch).
C6_Witness ==
  /\ pc = "latex_done"
  /\ result.ok
  /\ ListingDesc.t = "str"
  /\ Len(ListingDesc.v) = 29
  /\ ~StartsWith(ListingDesc.v, Could)
  /\ StartsWith(result.summary_text, G1)

\* Every % & _ of out is preceded by exactly one backslash.
SinglyEscaped(out) ==
  \A i \in 1..Len(out) :
    out[i] \in {"%", "&", "_"} =>
      /\ i > 1
      /\ out[i - 1] = "\\"
      /\ (i > 2 => out[i - 2] # "\\")

\* C7 (as claimed): in the rendered document every % & _ of a substituted
\* summary or skill is preceded by exactly one backslash, whatever the input.
C7_ExactlyOneBackslash ==
  (pc = "latex_done" /\ result.ok /\ template.content = LatexTemplate1) =>
    SinglyEscaped(Between(modified_content, "^", "$"))

\* C8: the skills placeholder is rendered as one list item per entry of
\* required_skills, in order, and as the single item 'No specific skills
\* extracted.' when there is none.
C8_OneItemPerSkill ==
  (pc = "latex_done" /\ result.ok /\ template.content = LatexTemplate1) =>
    LET lines == SplitOn(Between(modified_content, "~", "$"), <<"\n">>) IN
    IF ListingSkills = <<>>
    THEN lines = <<NoSkillsItem>>
    ELSE /\ Len(lines) = Len(ListingSkills)
         /\ \A i \in 1..Len(lines) :
              lines[i] = ItemPrefix \o LatexEscape(ListingSkills[i].v)

\* C8 witness: a listing with several skills has been rendered.
C8_Witness ==
  /\ pc = "latex_done"
  /\ result.ok
  /\ template.content = LatexTemplate1
  /\ Len(ListingSkills) >= 3
  /\ Len(SplitOn(Between(modified_content, "~", "$"), <<"\n">>)) >= 3

\* C9: the top-skills placeholder becomes the first 3 entries of
\* required_skills joined by ', ' (all of them when fewer), and 'relevant
\* skills' when there is none; later entries do not appear in it.
C9_TopThreeSkills ==
  (pc = "email_done" /\ ~email_text.none
     /\ template.content \in {EmailTemplate1, EmailTemplate2}) =>
    LET shown == Between(email_text.text, "^", "~") IN
    IF ListingSkills = <<>>
    THEN shown = RelevantSkills
    ELSE /\ Len(SplitOn(shown, CommaSpace)) = Min(3, Len(ListingSkills))
         /\ \A i \in 1..Min(3, Len(ListingSkills)) :
              SplitOn(shown, CommaSpace)[i] = ListingSkills[i].v

\* C9 witness: a message has been generated for a listing with more than
\* three skills.
C9_Witness ==
  /\ pc = "email_done"
  /\ ~email_text.none
  /\ template.content = EmailTemplate1
  /\ Len(ListingSkills) > 3
  /\ Between(email_text.text, "^", "~") = Python \o CommaSpace \o SQL \o CommaSpace \o <<"D","o","c","k","e","r">>

-----------------------------------------------------------------------------
(* SpecCompile: one call of compile_latex_to_pdf on a .tex file name.       *)

\* File names ending in .tex: r.tex, rr.tex, r.tex.tex, ...
TexNames ==
  { Join(segs, <<>>) \o DotTex :
      segs \in { q \in SeqsUpTo({<<"r">>, DotTex}, MaxSegs) :
                   q # <<>> /\ q[1] = <<"r">> } }

InitCompile ==
  /\ pc = "call"
  /\ response = NoResponse
  /\ extracted_data = <<>>
  /\ template = NoTemplate
  /\ modified_content = <<>>
  /\ email_text = NoEmail
  /\ tex_name \in TexNames
  /\ disk \in SUBSET {tex_name, Artifact(tex_name), pdf_filename(tex_name)}
  /\ returncode = -1
  /\ result = NoFill
  /\ calls = <<>>
  /\ raised = FALSE
  /\ args_cleanup = FALSE
  /\ resume_text = <<>>
  /\ jd_text = <<>>
  /\ pdf_path = <<>>

\* The command is run only when the .tex file exists (line 177).
CompileCall ==
  /\ pc = "call"
  /\ \E run \in RunOutcomes(tex_name) :
       /\ result' = [NoFill EXCEPT !.ok = compile_latex_to_pdf(tex_name, disk, run)]
       /\ returncode' = IF tex_name \in disk THEN run.returncode ELSE -1
       /\ disk' = IF tex_name \in disk THEN disk \cup run.written ELSE disk
  /\ pc' = "compiled"
  /\ UNCHANGED <<response, extracted_data, template, modified_content,
                 email_text, tex_name, calls, raised, args_cleanup,
                 resume_text, jd_text, pdf_path>>

SpecCompile == InitCompile /\ [][CompileCall]_vars

\* C3 (as claimed): compile_latex_to_pdf reports success exactly when the
\* compiler exited with status 0 and the PDF the compiler writes for that
\* source file exists afterwards.
C3_SuccessIffExitZeroAndArtifact ==
  pc = "compiled" =>
    (result.ok <=> (returncode = 0 /\ Artifact(tex_name) \in disk))

-----------------------------------------------------------------------------
(* SpecSim: one call of calculate_similarity on two texts.                  *)

Words == {"python", "django", "the", "a"}
Texts == SeqsUpTo(Words, MaxWords)

InitSim ==
  /\ pc = "call"
  /\ response = NoResponse
  /\ extracted_data = <<>>
  /\ template = NoTemplate
  /\ modified_content = <<>>
  /\ email_text = NoEmail
  /\ tex_name = <<>>
  /\ disk = {}
  /\ returncode = -1
  /\ result = Returned(0)
  /\ calls = <<>>
  /\ raised = FALSE
  /\ args_cleanup = FALSE
  /\ resume_text \in Texts
  /\ jd_text \in Texts
  /\ pdf_path = <<>>

SimilarityCall ==
  /\ pc = "call"
  /\ \E lib_error \in BOOLEAN :
       result' = calculate_similarity(resume_text, jd_text, lib_error)
  /\ pc' = "scored"
  /\ UNCHANGED <<response, extracted_data, template, modified_content,
                 email_text, tex_name, disk, returncode, calls, raised,
                 args_cleanup, resume_text, jd_text, pdf_path>>

SpecSim == InitSim /\ [][SimilarityCall]_vars

\* Every token of the text is an English stop word or too short to count.
OnlyStopWords(text) ==
  \A i \in 1..Len(text) : text[i] \in {"the", "and", "a", "x"}

\* C10: calculate_similarity always returns a value, never raises, and the
\* value is 0.0 when either text is empty or no vocabulary is left after
\* stop word removal.
C10_DegenerateIsZero ==
  pc = "scored" =>
    /\ ~result.raised
    /\ (resume_text = <<>> \/ jd_text = <<>>
          \/ (OnlyStopWords(resume_text) /\ OnlyStopWords(jd_text)))
         => result.value = 0

\* C10 witness: two non-empty texts made only of stop words have been scored.
C10_Witness ==
  /\ pc = "scored"
  /\ resume_text # <<>>
  /\ jd_text # <<>>
  /\ OnlyStopWords(resume_text)
  /\ OnlyStopWords(jd_text)
  /\ result = Returned(0)

-----------------------------------------------------------------------------
(* Spec: a run of main, statement by statement.                             *)

AttachedOld == <<"M","y"," ","a","t","t","a","c","h","e","d"," ","r","e","s","u","m","e"," ","p","r","o","v","i","d","e","s">>
AttachedNew == <<"M","y"," ","a","t","t","a","c","h","e","d"," ","r","e","s","u","m","e"," ","(","P","D","F",")"," ","p","r","o","v","i","d","e","s">>

GoodSkills == JList(<<JStr(Python), JStr(SQL)>>)
GoodEmails == JList(<<JStr(Mail)>>)

\* Objects that differ from a well-formed one in one field.
MainBodies ==
  {Malformed, JNull, JList(<<JStr(<<"a","b">>)>>)} \cup
  { ObjWith(ti, JStr(Acme), JStr(LongDesc), GoodSkills, GoodEmails) :
      ti \in TitleValues } \cup
  { ObjWith(JStr(Dev), co, JStr(LongDesc), GoodSkills, GoodEmails) :
      co \in CompanyValues } \cup
  { ObjWith(JStr(Dev), JStr(Acme), de, GoodSkills, GoodEmails) :
      de \in DescValues } \cup
  { ObjWith(JStr(Dev), JStr(Acme), JStr(LongDesc), sk, GoodEmails) :
      sk \in SkillsValues } \cup
  { ObjWith(JStr(Dev), JStr(Acme), JStr(LongDesc), GoodSkills, em) :
      em \in EmailsValues \cup {JList(<<JNum(1)>>)} }

MainResponses ==
  {Resp(TRUE, FALSE, Malformed)} \cup
  { Resp(FALSE, f, b) : f \in BOOLEAN, b \in MainBodies }

Init ==
  /\ pc = "scrape"
  /\ response = NoResponse
  /\ extracted_data = <<>>
  /\ template = NoTemplate
  /\ modified_content = <<>>
  /\ email_text = NoEmail
  /\ tex_name = <<>>
  /\ disk = {}
  /\ returncode = -1
  /\ result = NoFill
  /\ calls = <<>>
  /\ raised = FALSE
  /\ args_cleanup \in BOOLEAN
  /\ resume_text = <<>>
  /\ jd_text = <<>>
  /\ pdf_path = <<>>

\* Lines 264-266: scrape_url; main returns when it yields no soup.
Scrape ==
  /\ pc = "scrape"
  /\ \E fetched \in BOOLEAN :
       pc' = IF fetched THEN "prepare" ELSE "returned"
  /\ calls' = Append(calls, "scrape_url")
  /\ UNCHANGED <<response, extracted_data, template, modified_content,
                 email_text, tex_name, disk, returncode, result, raised,
                 args_cleanup, resume_text, jd_text, pdf_path>>

\* Lines 268-269: get_clean_text_from_html; main returns on empty text.
PrepareText ==
  /\ pc = "prepare"
  /\ \E has_text \in BOOLEAN :
       pc' = IF has_text THEN "extract" ELSE "returned"
  /\ calls' = Append(calls, "get_clean_text_from_html")
  /\ UNCHANGED <<response, extracted_data, template, modified_content,
                 email_text, tex_name, disk, returncode, result, raised,
                 args_cleanup, resume_text, jd_text, pdf_path>>

\* Line 271.
Extract ==
  /\ pc = "extract"
  /\ \E r \in MainResponses :
       /\ response' = r
       /\ extracted_data' = extract_data_with_gemini(r)
  /\ calls' = Append(calls, "extract_data_with_gemini")
  /\ pc' = "summary"
  /\ UNCHANGED <<template, modified_content, email_text, tex_name, disk,
                 returncode, result, raised, args_cleanup, resume_text,
                 jd_text, pdf_path>>

\* ', '.join(x) if x else 'None' raises on a non-empty list with an item
\* that is not a str.
JoinRaises(x) == Truthy(x) /\ ~AllStr(x)

\* Lines 273-280 raise: the joins of lines 277 and 278, or .startswith of a
\* truthy job_description that is not a str (line 279).
PrintSummaryRaises(d) ==
  \/ JoinRaises(Item(d, JStr(K_required_skills)))
  \/ JoinRaises(Item(d, JStr(K_emails)))
  \/ /\ Truthy(Item(d, JStr(K_job_description)))
     /\ ~IsStr(Item(d, JStr(K_job_description)))

PrintSummary ==
  /\ pc = "summary"
  /\ raised' = PrintSummaryRaises(extracted_data)
  /\ pc' = IF PrintSummaryRaises(extracted_data) THEN "raised" ELSE "names"
  /\ UNCHANGED <<response, extracted_data, template, modified_content,
                 email_text, tex_name, disk, returncode, result, calls,
                 args_cleanup, resume_text, jd_text, pdf_path>>

\* Lines 285-291: base_filename and the .tex file name; sanitize_filename
\* raises on a company_name or job_title that is not a str.
BuildNames ==
  /\ pc = "names"
  /\ LET company == Item(extracted_data, JStr(K_company_name))
         title == Item(extracted_data, JStr(K_job_title))
     IN IF SanitizeRaises(company) \/ SanitizeRaises(title)
        THEN /\ raised' = TRUE
             /\ pc' = "raised"
             /\ UNCHANGED tex_name
        ELSE /\ tex_name' = sanitize_filename(company.v) \o <<"_">>
                              \o sanitize_filename(title.v) \o <<"_">>
                              \o Timestamp \o DotTex
             /\ pc' = "modify"
             /\ UNCHANGED raised
  /\ calls' = Append(calls, "sanitize_filename")
  /\ UNCHANGED <<response, extracted_data, template, modified_content,
                 email_text, disk, returncode, result, args_cleanup,
                 resume_text, jd_text, pdf_path>>

\* Lines 293-297 and 314-315.
ModifyLatex ==
  /\ pc = "modify"
  /\ \E tpl \in LatexTemplates, write_ok \in BOOLEAN :
       /\ template' = tpl
       /\ result' = modify_latex_template(tpl, extracted_data, write_ok)
       /\ modified_content' = result'.content
       /\ disk' = IF result'.ok THEN disk \cup {tex_name} ELSE disk
       /\ pc' = IF result'.ok THEN "compile" ELSE "email"
  /\ calls' = Append(calls, "modify_latex_template")
  /\ UNCHANGED <<response, extracted_data, email_text, tex_name, returncode,
                 raised, args_cleanup, resume_text, jd_text, pdf_path>>

Compile_cleanup_without_flag ==
  /\ pc = "compile"
  /\ \E run \in RunOutcomes(tex_name) :
       /\ returncode' = run.returncode
       /\ disk' = disk \cup run.written
       /\ pdf_path' = IF compile_latex_to_pdf(tex_name, disk, run)
                      THEN pdf_filename(tex_name) ELSE <<>>
       /\ pc' = IF compile_latex_to_pdf(tex_name, disk, run)
                THEN "cleanup" ELSE "email"
  /\ calls' = Append(calls, "compile_latex_to_pdf")
  /\ UNCHANGED <<response, extracted_data, template, modified_content,
                 email_text, tex_name, result, raised, args_cleanup,
                 resume_text, jd_text>>

\* Lines 304-311.
Compile ==
  /\ pc = "compile"
  /\ \E run \in RunOutcomes(tex_name) :
       /\ returncode' = run.returncode
       /\ disk' = disk \cup run.written
       /\ pdf_path' = IF compile_latex_to_pdf(tex_name, disk, run)
                      THEN pdf_filename(tex_name) ELSE <<>>
       /\ pc' = IF compile_latex_to_pdf(tex_name, disk, run) /\ args_cleanup
                THEN "cleanup" ELSE "email"
  /\ calls' = Append(calls, "compile_latex_to_pdf")
  /\ UNCHANGED <<response, extracted_data, template, modified_content,
                 email_text, tex_name, result, raised, args_cleanup,
                 resume_text, jd_text>>

\* base_filename: the .tex file name without its .tex.
BaseFilename == SubSeq(tex_name, 1, Len(tex_name) - Len(DotTex))

\* Lines 308-309.
Cleanup ==
  /\ pc = "cleanup"
  /\ \E kept \in SUBSET disk :
       disk' = cleanup_latex_aux_files(disk, BaseFilename, kept)
  /\ calls' = Append(calls, "cleanup_latex_aux_files")
  /\ pc' = "email"
  /\ UNCHANGED <<response, extracted_data, template, modified_content,
                 email_text, tex_name, returncode, result, raised,
                 args_cleanup, resume_text, jd_text, pdf_path>>

\* s.replace(old, new, 1)
ReplaceFirst(s, old, new) ==
  IF FindSub(s, old) = 0 THEN s
  ELSE SubSeq(s, 1, FindSub(s, old) - 1) \o new
         \o SubSeq(s, FindSub(s, old) + Len(old), Len(s))

\* Lines 320-328 and 346-347: an empty or missing text ends the run.
GenerateEmail ==
  /\ pc = "email"
  /\ \E tpl \in EmailTemplates :
       LET made == generate_email(tpl, extracted_data) IN
       /\ template' = tpl
       /\ email_text' =
            IF ~made.none /\ made.text # <<>> /\ pdf_path # <<>>
            THEN [made EXCEPT !.text = ReplaceFirst(made.text, AttachedOld, AttachedNew)]
            ELSE made
       /\ pc' = IF ~made.none /\ made.text # <<>> THEN "save_email" ELSE "finished"
  /\ calls' = Append(calls, "generate_email")
  /\ UNCHANGED <<response, extracted_data, modified_content, tex_name, disk,
                 returncode, result, raised, args_cleanup, resume_text,
                 jd_text, pdf_path>>

\* Lines 330-344: the draft is written; a failure is reported, not raised.
SaveEmail ==
  /\ pc = "save_email"
  /\ \E write_ok \in BOOLEAN :
       calls' = Append(calls, IF write_ok THEN "email_saved" ELSE "email_not_saved")
  /\ pc' = "finished"
  /\ UNCHANGED <<response, extracted_data, template, modified_content,
                 email_text, tex_name, disk, returncode, result, raised,
                 args_cleanup, resume_text, jd_text, pdf_path>>

Next ==
  \/ Scrape
  \/ PrepareText
  \/ Extract
  \/ PrintSummary
  \/ BuildNames
  \/ ModifyLatex
  \/ Compile
  \/ Cleanup
  \/ GenerateEmail
  \/ SaveEmail

Spec == Init /\ [][Next]_vars

DocumentCalls ==
  {"modify_latex_template", "compile_latex_to_pdf", "cleanup_latex_aux_files"}

\* C4 (as claimed): every run of main that got past fetching and text
\* normalization ends having called generate_email, after the last call of
\* the document branch.
C4_EmailAttemptedAfterDocument ==
  (pc \in {"finished", "raised"} /\ response # NoResponse) =>
    \E i \in 1..Len(calls) :
      /\ calls[i] = "generate_email"
      /\ \A j \in (i + 1)..Len(calls) : calls[j] \notin DocumentCalls

\* C5 (as claimed): no exception crosses main, whatever the fetch outcome,
\* the Extractor response, the template files and the compiler do.
C5_NoExceptionCrossesMain == ~raised /\ pc # "raised"

-----------------------------------------------------------------------------
(* SpecMail: generate_email called with a record that                      *)
(* extract_data_with_gemini returned, for any response and any template.   *)

MailOnRecord ==
  /\ pc = "extracted"
  /\ \E tpl \in EmailTemplates :
       /\ template' = tpl
       /\ email_text' = generate_email(tpl, extracted_data)
  /\ pc' = "mailed"
  /\ UNCHANGED <<response, extracted_data, modified_content, tex_name, disk,
                 returncode, result, calls, raised, args_cleanup, resume_text,
                 jd_text, pdf_path>>

SpecMail == InitExtract /\ [][ExtractCall \/ MailOnRecord]_vars

\* The template file was read and str.format accepts its content with the
\* six keyword names of the call: balanced braces, no unknown placeholder.
WellFormedTemplate ==
  /\ template.readable
  /\ FormatOk(template.content, EmailEnv(default_data))

\* C11: generate_email returns None only if the message template is
\* unreadable or malformed: for every record returned by
\* extract_data_with_gemini and a readable, well-formed template it returns
\* the message text.
C11_FailsOnlyOnBadTemplate ==
  (pc = "mailed" /\ WellFormedTemplate) => ~email_text.none

-----------------------------------------------------------------------------
(* Cleanup in main *)

\* The step just taken is main's call of cleanup_latex_aux_files.
CleanupStep ==
  /\ Len(calls') = Len(calls) + 1
  /\ calls'[Len(calls')] = "cleanup_latex_aux_files"

\* C12: in every run of main, cleanup_latex_aux_files is invoked only with
\* the cleanup flag given, directly after compile_latex_to_pdf returned
\* success in that run (so template filling succeeded, the compiler exited
\* with 0 and the PDF exists); it removes only files named base name plus
\* one of the fixed auxiliary extensions and leaves the .tex and the .pdf.
C12_CleanupOnlyAfterSuccess ==
  [][ CleanupStep =>
        /\ args_cleanup
        /\ calls[Len(calls)] = "compile_latex_to_pdf"
        /\ result.ok
        /\ returncode = 0
        /\ pdf_path # <<>>
        /\ (disk \ disk') \subseteq
             {BaseFilename \o ext : ext \in extensions_to_remove}
        /\ tex_name \in disk' /\ pdf_path \in disk'
        /\ disk' \subseteq disk ]_vars

\* Cleanup ran after a compile that wrote the .log and the .aux: the .log is
\* gone, the .aux could not be removed, the .tex and the .pdf remain.
C12_Witness ==
  /\ Len(calls) > 0
  /\ calls[Len(calls)] = "cleanup_latex_aux_files"
  /\ args_cleanup
  /\ (BaseFilename \o DotLog) \notin disk
  /\ (BaseFilename \o DotAux) \in disk
  /\ tex_name \in disk
  /\ pdf_path \in disk

-----------------------------------------------------------------------------
(* extract_skills, extract_keywords and analyze_resume_text (testing.py).  *)

MaxPieces == 3

PREDEFINED_SKILLS ==
  << <<"p","y","t","h","o","n">>,
     <<"j","a","v","a">>,
     <<"c","+","+">>,
     <<"j","a","v","a","s","c","r","i","p","t">>,
     <<"h","t","m","l">>,
     <<"c","s","s">>,
     <<"s","q","l">>,
     <<"n","o","s","q","l">>,
     <<"m","o","n","g","o","d","b">>,
     <<"r","e","a","c","t">>,
     <<"a","n","g","u","l","a","r">>,
     <<"v","u","e">>,
     <<"n","o","d","e",".","j","s">>,
     <<"d","j","a","n","g","o">>,
     <<"f","l","a","s","k">>,
     <<"s","p","r","i","n","g">>,
     <<"m","a","c","h","i","n","e"," ","l","e","a","r","n","i","n","g">>,
     <<"d","e","e","p"," ","l","e","a","r","n","i","n","g">>,
     <<"d","a","t","a"," ","s","c","i","e","n","c","e">>,
     <<"d","a","t","a"," ","a","n","a","l","y","s","i","s">>,
     <<"a","w","s">>,
     <<"a","z","u","r","e">>,
     <<"g","c","p">>,
     <<"d","o","c","k","e","r">>,
     <<"k","u","b","e","r","n","e","t","e","s">>,
     <<"g","i","t">>,
     <<"j","i","r","a">>,
     <<"a","g","i","l","e">>,
     <<"c","o","m","m","u","n","i","c","a","t","i","o","n">>,
     <<"t","e","a","m","w","o","r","k">>,
     <<"p","r","o","b","l","e","m"," ","s","o","l","v","i","n","g">>,
     <<"l","e","a","d","e","r","s","h","i","p">>,
     <<"p","r","o","j","e","c","t"," ","m","a","n","a","g","e","m","e","n","t">> >>

\* The cased letters of the texts, for str.lower, str.capitalize, str.isalpha
\* and the regex word class.
Letters ==
  [lower |-> <<"a","b","c","d","e","f","g","h","i","j","k","l","m","n","o","p","q","r","s","t","u","v","w","x","y","z">>,
   upper |-> <<"A","B","C","D","E","F","G","H","I","J","K","L","M","N","O","P","Q","R","S","T","U","V","W","X","Y","Z">>]

\* s.lower()
Lower(s) ==
  [i \in 1..Len(s) |->
     IF \E k \in 1..Len(Letters.upper) : Letters.upper[k] = s[i]
     THEN Letters.lower[CHOOSE k \in 1..Len(Letters.upper) : Letters.upper[k] = s[i]]
     ELSE s[i]]

\* s.capitalize(): the first character upper-cased, the rest lower-cased.
Capitalize(s) ==
  [i \in 1..Len(s) |->
     IF i = 1 /\ \E k \in 1..Len(Letters.lower) : Letters.lower[k] = s[i]
     THEN Letters.upper[CHOOSE k \in 1..Len(Letters.lower) : Letters.lower[k] = s[i]]
     ELSE Lower(s)[i]]

\* re.search(r'\b' + re.escape(skill) + r'\b', text_lower): the literal skill
\* occurs at some i with a word boundary on each side.  \b holds between
\* two positions exactly when one of them holds a word character
\* [A-Za-z0-9_] and the other does not (the text's edges hold none).
re_search(skill, text_lower) ==
  LET wordAt(p) ==
        /\ p \in 1..Len(text_lower)
        /\ \/ \E k \in 1..Len(Letters.lower) :
                text_lower[p] \in {Letters.lower[k], Letters.upper[k]}
           \/ text_lower[p] \in {"0","1","2","3","4","5","6","7","8","9","_"}
      boundary(p) == wordAt(p) # wordAt(p + 1)
  IN \E i \in 1..(Len(text_lower) - Len(skill) + 1) :
       /\ SubSeq(text_lower, i, i + Len(skill) - 1) = skill
       /\ boundary(i - 1)
       /\ boundary(i + Len(skill) - 1)

\* list(found_skills): a set, its order is not defined.
extract_skills(text) ==
  { Capitalize(PREDEFINED_SKILLS[k]) :
      k \in { k \in 1..Len(PREDEFINED_SKILLS) :
                re_search(Lower(PREDEFINED_SKILLS[k]), Lower(text)) } }

RECURSIVE word_tokenize(_)
\* nltk's word_tokenize on a text of letters, digits, +, spaces and periods
\* inside a word: the maximal runs of characters other than the space.
word_tokenize(s) ==
  IF s = <<>> THEN <<>>
  ELSE IF IndexOf(s, " ") = 0 THEN <<s>>
  ELSE IF IndexOf(s, " ") = 1 THEN word_tokenize(Tail(s))
  ELSE <<SubSeq(s, 1, IndexOf(s, " ") - 1)>>
         \o word_tokenize(SubSeq(s, IndexOf(s, " ") + 1, Len(s)))

\* Line 112 tests `word.isalpha() and word not in stop_words`.  The module
\* binds no name stop_words (it imports nltk.corpus.stopwords and never
\* calls it), so the first alphabetic token raises NameError; with no
\* alphabetic token the test short-circuits, filtered_tokens is empty and
\* most_common returns [].
extract_keywords(text, num_keywords) ==
  LET tokens == word_tokenize(Lower(text))
      isalpha(w) ==
        /\ w # <<>>
        /\ \A j \in 1..Len(w) : \E k \in 1..Len(Letters.lower) :
              w[j] \in {Letters.lower[k], Letters.upper[k]}
  IN IF text = <<>> THEN Returned(<<>>)
     ELSE IF \E i \in 1..Len(tokens) : isalpha(tokens[i]) THEN Raised
     ELSE Returned(Take(<<>>, num_keywords))

\* analyze_resume_text, its skills and keywords fields; an exception of
\* extract_keywords passes through it.
analyze_resume_text(text) ==
  IF text = <<>>
  THEN [error |-> TRUE, raised |-> FALSE, skills |-> {}, keywords |-> <<>>]
  ELSE [error |-> FALSE,
        raised |-> extract_keywords(text, 15).raised,
        skills |-> extract_skills(text),
        keywords |-> extract_keywords(text, 15).value]

\* Texts put together from a few pieces.
AnalysisTexts ==
  { Join(ps, <<>>) :
      ps \in SeqsUpTo({<<"c","+","+">>, <<"C","+","+">>, <<"j","a","v","a">>,
                       <<"n","o","d","e",".","j","s">>, <<"t","h","e">>,
                       <<"x">>, <<"1">>, <<" ">>}, MaxPieces) }

InitText ==
  /\ pc = "call"
  /\ response = NoResponse
  /\ extracted_data = <<>>
  /\ template = NoTemplate
  /\ modified_content = <<>>
  /\ email_text = NoEmail
  /\ tex_name = <<>>
  /\ disk = {}
  /\ returncode = -1
  /\ result = NoFill
  /\ calls = <<>>
  /\ raised = FALSE
  /\ args_cleanup = FALSE
  /\ resume_text \in AnalysisTexts
  /\ jd_text = <<>>
  /\ pdf_path = <<>>

ExtractSkillsCall ==
  /\ pc = "call"
  /\ result' = Returned(extract_skills(resume_text))
  /\ pc' = "skills_done"
  /\ UNCHANGED <<response, extracted_data, template, modified_content,
                 email_text, tex_name, disk, returncode, calls, raised,
                 args_cleanup, resume_text, jd_text, pdf_path>>

\* calls records the num_keywords argument of the call.
ExtractKeywordsCall ==
  /\ pc = "call"
  /\ \E num_keywords \in {1, 2, 10, 15} :
       /\ result' = extract_keywords(resume_text, num_keywords)
       /\ calls' = <<num_keywords>>
  /\ pc' = "keywords_done"
  /\ UNCHANGED <<response, extracted_data, template, modified_content,
                 email_text, tex_name, disk, returncode, raised,
                 args_cleanup, resume_text, jd_text, pdf_path>>

AnalyzeCall ==
  /\ pc = "call"
  /\ result' = analyze_resume_text(resume_text)
  /\ pc' = "analyzed"
  /\ UNCHANGED <<response, extracted_data, template, modified_content,
                 email_text, tex_name, disk, returncode, calls, raised,
                 args_cleanup, resume_text, jd_text, pdf_path>>

SpecText ==
  InitText /\ [][ExtractSkillsCall \/ ExtractKeywordsCall \/ AnalyzeCall]_vars

\* The entry occurs in the text with no letter or digit next to it.
OccursAsWholeWord(skill, text) ==
  LET alnum(p) ==
        /\ p \in 1..Len(text)
        /\ \/ \E k \in 1..Len(Letters.lower) :
                text[p] \in {Letters.lower[k], Letters.upper[k]}
           \/ text[p] \in {"0","1","2","3","4","5","6","7","8","9"}
  IN \E i \in 1..(Len(text) - Len(skill) + 1) :
       /\ SubSeq(text, i, i + Len(skill) - 1) = skill
       /\ ~alnum(i - 1)
       /\ ~alnum(i + Len(skill))

\* C13 (as claimed): extract_skills returns the capitalized vocabulary entry
\* exactly when the entry occurs in the text as a whole word, compared
\* case-insensitively, for every entry, 'c++' and 'node.js' included.
C13_SkillIffWholeWord ==
  pc = "skills_done" =>
    \A k \in 1..Len(PREDEFINED_SKILLS) :
      (Capitalize(PREDEFINED_SKILLS[k]) \in result.value)
        <=> OccursAsWholeWord(PREDEFINED_SKILLS[k], Lower(resume_text))

\* The lower-cased alphabetic tokens of the text that are no stop words.
KeywordTokens(text) ==
  LET tokens == word_tokenize(Lower(text)) IN
  SelectSeq(tokens,
            LAMBDA w : /\ w # <<"t","h","e">>
                       /\ w # <<>>
                       /\ \A j \in 1..Len(w) : \E k \in 1..Len(Letters.lower) :
                             w[j] = Letters.lower[k])

\* C14 (as claimed): extract_keywords(text, N) returns without error at
\* most N lower-cased alphabetic non-stopword tokens of the text, those of
\* the highest frequencies, by descending count and then by first
\* occurrence, and the empty list for the empty text; analyze_resume_text on
\* a non-empty text yields at most 15 keywords.
C14_KeywordsTopN ==
  /\ pc = "keywords_done" =>
       LET toks == KeywordTokens(resume_text)
           cnt(w) == Cardinality({i \in 1..Len(toks) : toks[i] = w})
           first(w) == CHOOSE i \in 1..Len(toks) :
                         toks[i] = w /\ \A j \in 1..(i - 1) : toks[j] # w
           before(a, b) == cnt(a) > cnt(b) \/ (cnt(a) = cnt(b) /\ first(a) < first(b))
           kw == result.value
       IN /\ ~result.raised
          /\ Len(kw) = Min(calls[1], Cardinality({toks[i] : i \in 1..Len(toks)}))
          /\ \A i \in 1..Len(kw) : \E j \in 1..Len(toks) : toks[j] = kw[i]
          /\ \A i \in 1..Len(kw) : \A j \in (i + 1)..Len(kw) : before(kw[i], kw[j])
          /\ \A i \in 1..Len(kw) : \A j \in 1..Len(toks) :
                (\A m \in 1..Len(kw) : kw[m] # toks[j]) => before(kw[i], toks[j])
  /\ (pc = "analyzed" /\ resume_text # <<>>) =>
       /\ ~result.raised
       /\ ~result.error
       /\ Len(result.keywords) <= 15

====
